---------------------------- MODULE Spec2Model ----------------------------
(***************************************************************************)
(* The elementwise power atom of cvxpy/atoms/elementwise/power.py.         *)
(*                                                                         *)
(* A power atom is built from a scalar exponent.  __init__ converts the    *)
(* exponent to an exact number, replaces it by a rational approximation    *)
(* whose denominator is at most max_denom (pow_high, pow_mid, pow_neg) and *)
(* stores the approximated exponent self.p with the weight pair self.w.    *)
(* func_curvature, monotonicity and graph_implementation read only these   *)
(* two fields.                                                             *)
(*                                                                         *)
(* Numbers are exact: a value is a record [num, den, ty] in lowest terms   *)
(* with den > 0; ty tells a Python int from a fractions.Fraction.          *)
(***************************************************************************)
EXTENDS Integers, Sequences, FiniteSets, TLC

(***************************************************************************)
(* Bounds of the explored exponents.                                       *)
(***************************************************************************)
MaxNum == 2050
MaxSmallDen == 3

(***************************************************************************)
(* max_denom=1024: the default of pow_high, pow_mid and pow_neg, the only  *)
(* value __init__ ever calls them with.                                    *)
(***************************************************************************)
max_denom == 1024

---------------------------------------------------------------------------
(***************************************************************************)
(* Exact arithmetic of int and fractions.Fraction.                         *)
(***************************************************************************)
Abs(i) == IF i < 0 THEN -i ELSE i

RECURSIVE Gcd(_, _)
Gcd(a, b) == IF b = 0 THEN a ELSE Gcd(b, a % b)

\* Fraction(n, d): lowest terms, positive denominator (d # 0).
Fraction(n, d) ==
    LET g == Gcd(Abs(n), Abs(d))
        s == IF d < 0 THEN -1 ELSE 1
    IN  [num |-> (s * n) \div g, den |-> (s * d) \div g, ty |-> "Fraction"]

\* A Python int.
PyInt(k) == [num |-> k, den |-> 1, ty |-> "int"]

\* Fraction(v): an int or a Fraction as a Fraction of the same value.
AsFraction(v) == [num |-> v.num, den |-> v.den, ty |-> "Fraction"]

\* a == b, a < b, a <= b of Python numbers: by value, whatever the type.
NumEq(a, b) == a.num * b.den = b.num * a.den
NumLt(a, b) == a.num * b.den < b.num * a.den
NumLe(a, b) == a.num * b.den <= b.num * a.den

FrSub(a, b) == Fraction(a.num * b.den - b.num * a.den, a.den * b.den)
FrAbs(a) == [num |-> Abs(a.num), den |-> a.den, ty |-> a.ty]
\* a / b with b # 0 (the callers test b first: Python raises on b == 0).
FrDiv(a, b) == Fraction(a.num * b.den, a.den * b.num)
IsZero(a) == a.num = 0

Zero == PyInt(0)
One == PyInt(1)

\* The value None of self.w.
None == <<>>

(***************************************************************************)
(* Fraction.limit_denominator(max_denominator) of the standard library:    *)
(* the continued-fraction search for the closest fraction with denominator *)
(* at most max_denominator, a tie going to the smaller denominator.        *)
(***************************************************************************)
RECURSIVE cf_loop(_, _, _, _, _, _, _)
cf_loop(p0, q0, p1, q1, n, d, maxd) ==
    LET a == n \div d
        q2 == q0 + a * q1
    IN  IF q2 > maxd
        THEN [p0 |-> p0, q0 |-> q0, p1 |-> p1, q1 |-> q1]
        ELSE cf_loop(p1, q1, p0 + a * p1, q2, d, n - a * d, maxd)

limit_denominator(self, maxd) ==
    IF self.den <= maxd
    THEN AsFraction(self)
    ELSE LET c == cf_loop(0, 1, 1, 0, self.num, self.den, maxd)
             k == (maxd - c.q0) \div c.q1
             bound1 == Fraction(c.p0 + k * c.p1, c.q0 + k * c.q1)
             bound2 == Fraction(c.p1, c.q1)
         IN  IF NumLe(FrAbs(FrSub(bound2, self)), FrAbs(FrSub(bound1, self)))
             THEN bound2
             ELSE bound1

---------------------------------------------------------------------------
(***************************************************************************)
(* The three approximators.  Each returns [exc, p, w]: exc is "none" and   *)
(* (p, w) the returned tuple, or exc names the exception the body raises.  *)
(***************************************************************************)
Returns(p, w) == [exc |-> "none", p |-> p, w |-> w]
Raises(e) == [exc |-> e, p |-> Zero, w |-> None]

\* int(1/p) when 1/p == int(1/p), else 1/p  (power.py lines 188-190).
IntIfWhole(v) == IF v.den = 1 THEN PyInt(v.num) ELSE v

\* pow_high returning the approximation of 1/p instead of its inverse.
pow_high_uninverted(p0, maxd) ==
    LET p == limit_denominator(FrDiv(One, AsFraction(p0)), maxd)
    IN  Returns(p, <<p, FrSub(One, p)>>)

pow_high(p0, maxd) ==
    LET p == limit_denominator(FrDiv(One, AsFraction(p0)), maxd)
    IN  IF IsZero(p)
        THEN Raises("ZeroDivisionError")
        ELSE Returns(IntIfWhole(FrDiv(One, p)), <<p, FrSub(One, p)>>)

\* pow_mid rounding down to a multiple of 1/max_denom instead of to the
\* nearest fraction.
pow_mid_truncating(p0, maxd) ==
    LET p == Fraction((p0.num * maxd) \div p0.den, maxd)
    IN  Returns(p, <<p, FrSub(One, p)>>)

\* pow_mid returning the second weight as the exponent.
pow_mid_complement(p0, maxd) ==
    LET p == limit_denominator(AsFraction(p0), maxd)
    IN  Returns(FrSub(One, p), <<p, FrSub(One, p)>>)

pow_mid(p0, maxd) ==
    LET p == limit_denominator(AsFraction(p0), maxd)
    IN  Returns(p, <<p, FrSub(One, p)>>)

\* pow_neg without the limit_denominator call.
pow_neg_unbounded(p0, maxd) ==
    LET f == AsFraction(p0)
        p == FrDiv(f, FrSub(f, One))
    IN  IF IsZero(FrSub(p, One))
        THEN Raises("ZeroDivisionError")
        ELSE Returns(FrDiv(p, FrSub(p, One)), <<p, FrSub(One, p)>>)

\* pow_neg returning the weights in the other order.
pow_neg_swapped(p0, maxd) ==
    LET f == AsFraction(p0)
        p == limit_denominator(FrDiv(f, FrSub(f, One)), maxd)
    IN  IF IsZero(FrSub(p, One))
        THEN Raises("ZeroDivisionError")
        ELSE Returns(FrDiv(p, FrSub(p, One)), <<FrSub(One, p), p>>)

pow_neg(p0, maxd) ==
    LET f == AsFraction(p0)
        p == limit_denominator(FrDiv(f, FrSub(f, One)), maxd)
    IN  IF IsZero(FrSub(p, One))
        THEN Raises("ZeroDivisionError")
        ELSE Returns(FrDiv(p, FrSub(p, One)), <<p, FrSub(One, p)>>)

---------------------------------------------------------------------------
(***************************************************************************)
(* The exponents given to power(x, p): an int, a float (an exact binary    *)
(* fraction) or a Fraction, each as [kind, num, den] in lowest terms.      *)
(* Besides small denominators, the denominators just above max_denom and   *)
(* around 2*max_denom are the ones where the approximation has to round.   *)
(***************************************************************************)
RECURSIVE IsPow2(_)
IsPow2(n) == n = 1 \/ (n > 1 /\ n % 2 = 0 /\ IsPow2(n \div 2))

Numerators == (-MaxNum)..MaxNum
Denominators ==
    (1..MaxSmallDen) \cup
    {max_denom + 1, 2 * max_denom - 1, 2 * max_denom, 2 * max_denom + 1}

RawInputs ==
    {[kind |-> "int", num |-> n, den |-> 1] : n \in Numerators}
    \cup
    {[kind |-> k, num |-> nd[1], den |-> nd[2]] :
        k \in {"Fraction"},
        nd \in {x \in Numerators \X Denominators : Gcd(Abs(x[1]), x[2]) = 1}}
    \cup
    {[kind |-> k, num |-> nd[1], den |-> nd[2]] :
        k \in {"float"},
        nd \in {x \in Numerators \X Denominators :
                    IsPow2(x[2]) /\ Gcd(Abs(x[1]), x[2]) = 1}}

\* The exact value of a raw exponent.
RawValue(raw) == Fraction(raw.num, raw.den)

(***************************************************************************)
(* sanitize_scalar of cvxpy/utilities/power_tools.py: an int stays an int, *)
(* a Fraction passes through, a float becomes the Fraction of its exact    *)
(* binary value.                                                           *)
(***************************************************************************)
sanitize_scalar(raw) ==
    IF raw.kind = "int" THEN PyInt(raw.num) ELSE Fraction(raw.num, raw.den)

(***************************************************************************)
(* power.__init__, lines 63-84.                                            *)
(***************************************************************************)
\* lines 65-70: the dispatch on the sanitized exponent.  For p equal to 0
\* or 1 no branch is taken; w is then bound only by lines 76-82.
dispatch(p, maxd) ==
    IF NumLt(One, p) THEN pow_high(p, maxd)
    ELSE IF NumLt(Zero, p) /\ NumLt(p, One) THEN pow_mid(p, maxd)
    ELSE IF NumLt(p, Zero) THEN pow_neg(p, maxd)
    ELSE Returns(p, None)

\* lines 76-82 without the test p == 1.
collapse_zero_only(p, w) ==
    IF NumEq(p, Zero) THEN [p |-> Zero, w |-> None]
    ELSE [p |-> p, w |-> w]

\* lines 76-82: an approximation equal to 1 or to 0 becomes the int, w None.
collapse(p, w) ==
    IF NumEq(p, One) THEN [p |-> One, w |-> None]
    ELSE IF NumEq(p, Zero) THEN [p |-> Zero, w |-> None]
    ELSE [p |-> p, w |-> w]

power_init(raw) ==
    LET r == dispatch(sanitize_scalar(raw), max_denom)
    IN  IF r.exc # "none"
        THEN r
        ELSE LET c == collapse(r.p, r.w) IN Returns(c.p, c.w)

---------------------------------------------------------------------------
(***************************************************************************)
(* The queries on self.p and self.w.                                       *)
(***************************************************************************)
\* power.func_curvature, lines 102-110; no branch taken returns None.
func_curvature(p) ==
    IF NumEq(p, Zero) THEN "CONSTANT"
    ELSE IF NumEq(p, One) THEN "AFFINE"
    ELSE IF NumLt(p, Zero) \/ NumLt(One, p) THEN "CONVEX"
    ELSE IF NumLt(Zero, p) /\ NumLt(p, One) THEN "CONCAVE"
    ELSE "None"

\* is_power2 of cvxpy/utilities/power_tools.py: a positive integer that is
\* a power of two.
is_power2(v) == v.den = 1 /\ v.num > 0 /\ IsPow2(v.num)

\* monotonicity without the is_power2 test.
monotonicity_no_signed(p) ==
    IF NumEq(p, Zero) THEN <<"NONMONOTONIC">>
    ELSE IF NumEq(p, One) THEN <<"INCREASING">>
    ELSE IF NumLt(p, Zero) THEN <<"DECREASING">>
    ELSE IF NumLt(Zero, p) /\ NumLt(p, One) THEN <<"INCREASING">>
    ELSE IF NumLt(One, p) THEN <<"INCREASING">>
    ELSE None

\* power.monotonicity, lines 112-126; no branch taken returns None.
monotonicity(p) ==
    IF NumEq(p, Zero) THEN <<"NONMONOTONIC">>
    ELSE IF NumEq(p, One) THEN <<"INCREASING">>
    ELSE IF NumLt(p, Zero) THEN <<"DECREASING">>
    ELSE IF NumLt(Zero, p) /\ NumLt(p, One) THEN <<"INCREASING">>
    ELSE IF NumLt(One, p)
         THEN IF is_power2(p) THEN <<"SIGNED">> ELSE <<"INCREASING">>
    ELSE None

\* power.get_data, lines 131-132.
get_data(p, w) == [p |-> p, w |-> w]

\* gm_constrs of cvxpy/utilities/power_tools.py, the opaque constructor of
\* the constraints t <= x1^w1 * x2^w2: kept as the call it was given.
gm_constrs(t, x_list, w) == <<[t |-> t, x_list |-> x_list, w |-> w]>>

\* graph_implementation with the wirings of 0 < p < 1 and p > 1 exchanged.
graph_implementation_swapped(x, data) ==
    LET p == data.p
        w == data.w
    IN  IF NumEq(p, One)
        THEN [exc |-> "none", obj |-> x, constrs |-> <<>>, created |-> {}]
        ELSE IF NumEq(p, Zero)
        THEN [exc |-> "none", obj |-> "one", constrs |-> <<>>,
              created |-> {"one"}]
        ELSE IF NumLt(Zero, p) /\ NumLt(p, One)
        THEN [exc |-> "none", obj |-> "t",
              constrs |-> gm_constrs(x, <<"t", "one">>, w),
              created |-> {"one", "t"}]
        ELSE IF NumLt(One, p)
        THEN [exc |-> "none", obj |-> "t",
              constrs |-> gm_constrs("t", <<x, "one">>, w),
              created |-> {"one", "t"}]
        ELSE IF NumLt(p, Zero)
        THEN [exc |-> "none", obj |-> "t",
              constrs |-> gm_constrs("one", <<x, "t">>, w),
              created |-> {"one", "t"}]
        ELSE [exc |-> "NotImplementedError", obj |-> "none", constrs |-> <<>>,
              created |-> {"one", "t"}]

(***************************************************************************)
(* power.graph_implementation, lines 152-171, on the operand "x".  The     *)
(* result is [exc, obj, constrs, created]: the returned pair and the       *)
(* names made by lu.create_const and lu.create_var on the way.             *)
(***************************************************************************)
graph_implementation(x, data) ==
    LET p == data.p
        w == data.w
    IN  IF NumEq(p, One)
        THEN [exc |-> "none", obj |-> x, constrs |-> <<>>, created |-> {}]
        ELSE IF NumEq(p, Zero)
        THEN [exc |-> "none", obj |-> "one", constrs |-> <<>>,
              created |-> {"one"}]
        ELSE IF NumLt(Zero, p) /\ NumLt(p, One)
        THEN [exc |-> "none", obj |-> "t",
              constrs |-> gm_constrs("t", <<x, "one">>, w),
              created |-> {"one", "t"}]
        ELSE IF NumLt(One, p)
        THEN [exc |-> "none", obj |-> "t",
              constrs |-> gm_constrs(x, <<"t", "one">>, w),
              created |-> {"one", "t"}]
        ELSE IF NumLt(p, Zero)
        THEN [exc |-> "none", obj |-> "t",
              constrs |-> gm_constrs("one", <<x, "t">>, w),
              created |-> {"one", "t"}]
        ELSE [exc |-> "NotImplementedError", obj |-> "none", constrs |-> <<>>,
              created |-> {"one", "t"}]

---------------------------------------------------------------------------
(***************************************************************************)
(* The state: one atom, from the call power(x, arg) on.                    *)
(*   pc      "new" before the call, then "constructed", or "raised" when   *)
(*           __init__ raised and no atom exists                            *)
(*   arg     the exponent given to power(x, p)                             *)
(*   self_p, self_w   the fields set at line 84                            *)
(*   exc     the exception __init__ raised, or "none"                      *)
(*   call, ret   the last method called on the atom and what it returned   *)
(***************************************************************************)
VARIABLES pc, arg, self_p, self_w, exc, call, ret

vars == <<pc, arg, self_p, self_w, exc, call, ret>>

NoArg == [kind |-> "none", num |-> 0, den |-> 1]
NoRet == "none"

Init ==
    /\ pc = "new"
    /\ arg = NoArg
    /\ self_p = Zero
    /\ self_w = None
    /\ exc = "none"
    /\ call = "none"
    /\ ret = NoRet

\* power(x, p): __init__ returns and the atom holds (self.p, self.w).
Construct(raw) ==
    /\ pc = "new"
    /\ LET r == power_init(raw)
       IN  /\ r.exc = "none"
           /\ pc' = "constructed"
           /\ self_p' = r.p
           /\ self_w' = r.w
    /\ arg' = raw
    /\ UNCHANGED <<exc, call, ret>>

\* power(x, p): __init__ raises, nothing is stored.
ConstructRaises(raw) ==
    /\ pc = "new"
    /\ LET r == power_init(raw)
       IN  /\ r.exc # "none"
           /\ pc' = "raised"
           /\ exc' = r.exc
    /\ arg' = raw
    /\ UNCHANGED <<self_p, self_w, call, ret>>

CallFuncCurvature ==
    /\ pc = "constructed"
    /\ call' = "func_curvature"
    /\ ret' = func_curvature(self_p)
    /\ UNCHANGED <<pc, arg, self_p, self_w, exc>>

CallMonotonicity ==
    /\ pc = "constructed"
    /\ call' = "monotonicity"
    /\ ret' = monotonicity(self_p)
    /\ UNCHANGED <<pc, arg, self_p, self_w, exc>>

\* The lowering pass: graph_implementation(arg_objs, size, self.get_data()).
CallGraphImplementation ==
    /\ pc = "constructed"
    /\ call' = "graph_implementation"
    /\ ret' = graph_implementation("x", get_data(self_p, self_w))
    /\ UNCHANGED <<pc, arg, self_p, self_w, exc>>

\* power(x, self.p): the stored exponent given to __init__ again.
Renormalize ==
    /\ pc = "constructed"
    /\ call' = "power"
    /\ ret' = power_init([kind |-> self_p.ty, num |-> self_p.num,
                          den |-> self_p.den])
    /\ UNCHANGED <<pc, arg, self_p, self_w, exc>>

Next ==
    \/ pc = "new" /\ \E raw \in RawInputs : Construct(raw)
    \/ pc = "new" /\ \E raw \in RawInputs : ConstructRaises(raw)
    \/ CallFuncCurvature
    \/ CallMonotonicity
    \/ CallGraphImplementation
    \/ Renormalize

Spec == Init /\ [][Next]_vars

---------------------------------------------------------------------------
TypeOK ==
    /\ pc \in {"new", "constructed", "raised"}
    /\ self_p.den > 0
    /\ Gcd(Abs(self_p.num), self_p.den) = 1
    /\ exc \in {"none", "ZeroDivisionError"}

---------------------------------------------------------------------------
(***************************************************************************)
(* Vocabulary of the properties.                                           *)
(***************************************************************************)
\* The exact value of the exponent the atom was built from.
P0 == RawValue(arg)

Built == pc = "constructed"
Called == pc # "new"

\* 1/(2*max_denom) and 1 - 1/(2*max_denom): the midpoints between a
\* boundary and its nearest neighbour with denominator max_denom.
HalfStep == Fraction(1, 2 * max_denom)
OneLessHalfStep == Fraction(2 * max_denom - 1, 2 * max_denom)

IsZeroOrOne(p) == NumEq(p, Zero) \/ NumEq(p, One)
InUnit(p) == NumLt(Zero, p) /\ NumLt(p, One)

\* The five exponent ranges.
Regime(p) ==
    IF NumEq(p, Zero) THEN "Zero"
    ELSE IF NumEq(p, One) THEN "One"
    ELSE IF NumLt(One, p) THEN "GreaterThanOne"
    ELSE IF NumLt(p, Zero) THEN "Negative"
    ELSE "OpenUnitInterval"

\* w1 + w2 == 1 for a weight pair.
SumsToOne(w) == w[1].num * w[2].den + w[2].num * w[1].den = w[1].den * w[2].den

---------------------------------------------------------------------------
\* C1 as stated: the stored exponent lies in the same regime as the given
\* exponent p0 (0 gives 0, 1 gives 1, (0,1) stays in (0,1), above 1 stays
\* above 1, below 0 stays below 0).
C1_SameRegime == Built => Regime(self_p) = Regime(P0)

\* C1 amended: the stored exponent lies in the regime of p0 or on a boundary
\* next to it: 0 gives 0, 1 gives 1, 0 < p0 < 1 gives 0 <= p <= 1, p0 > 1
\* gives p >= 1, p0 < 0 gives p <= 0.
C1_RegimeOrBoundary ==
    Built =>
        /\ NumEq(P0, Zero) => NumEq(self_p, Zero)
        /\ NumEq(P0, One) => NumEq(self_p, One)
        /\ InUnit(P0) => NumLe(Zero, self_p) /\ NumLe(self_p, One)
        /\ NumLt(One, P0) => NumLe(One, self_p)
        /\ NumLt(P0, Zero) => NumLe(self_p, Zero)

\* C1 witness: an exponent above 1 whose stored approximation is exactly 1.
C1_Witness == Built /\ NumLt(One, P0) /\ NumEq(self_p, One)

\* C2 as stated: for every p0 > 1 the construction completes, with p > 1 and
\* a weight pair summing to 1, or with p = 1 and no weights.
C2_HighCompletes ==
    (Called /\ NumLt(One, P0)) =>
        /\ Built
        /\ NumLe(One, self_p)
        /\ \/ NumLt(One, self_p) /\ self_w # None /\ SumsToOne(self_w)
           \/ NumEq(self_p, One) /\ self_w = None

\* C3 as stated: for every p0 < 0 the construction completes with p < 0, or
\* with p = 0 and no weights; p is never 1, and p = 0 only when
\* p0/(p0-1) <= 1/(2*max_denom).
C3_NegCompletes ==
    (Called /\ NumLt(P0, Zero)) =>
        /\ Built
        /\ NumLt(self_p, Zero) \/ (NumEq(self_p, Zero) /\ self_w = None)
        /\ ~NumEq(self_p, One)
        /\ NumEq(self_p, Zero) =>
               NumLe(FrDiv(P0, FrSub(P0, One)), HalfStep)

\* C4: for 0 < p0 < 1 the construction completes with 0 <= p <= 1; p = 0
\* only when p0 <= 1/(2*max_denom), p = 1 only when
\* p0 >= 1 - 1/(2*max_denom).
C4_MidStaysInUnit ==
    (Called /\ InUnit(P0)) =>
        /\ Built
        /\ NumLe(Zero, self_p) /\ NumLe(self_p, One)
        /\ NumEq(self_p, Zero) => NumLe(P0, HalfStep)
        /\ NumEq(self_p, One) => NumLe(OneLessHalfStep, P0)

\* C4 witness: a p0 in (0,1) that needed rounding, one collapsed onto 0.
C4_Witness ==
    Built /\ InUnit(P0) /\ NumEq(self_p, Zero) /\ arg.den > max_denom

\* C5: when the stored exponent is neither 0 nor 1, the denominators of the
\* exponent and of both weights are at most max_denom.
C5_DenominatorBound ==
    (Built /\ ~IsZeroOrOne(self_p)) =>
        /\ self_p.den <= max_denom
        /\ self_w # None
        /\ self_w[1].den <= max_denom
        /\ self_w[2].den <= max_denom

\* C5 witness: a negative p0 with a denominator above max_denom, stored as a
\* negative exponent that is no integer.
C5_Witness ==
    /\ Built
    /\ NumLt(P0, Zero)
    /\ arg.den > max_denom
    /\ NumLt(self_p, Zero)
    /\ self_p.den > 1

\* C6: the weights are None exactly when the stored exponent is 0 or 1.
C6_WeightsNoneIffBoundary == Built => (self_w = None <=> IsZeroOrOne(self_p))

\* C6 witness: an exponent that is neither 0 nor 1, stored as 1 with no
\* weights.
C6_Witness ==
    Built /\ ~IsZeroOrOne(P0) /\ NumEq(self_p, One) /\ self_w = None

\* C7: building an atom from a stored exponent succeeds and stores the same
\* exponent (denominator at most max_denom), regime and weights.
C7_Idempotent ==
    (Built /\ call = "power") =>
        /\ ret.exc = "none"
        /\ NumEq(ret.p, self_p)
        /\ ret.p.den <= max_denom
        /\ Regime(ret.p) = Regime(self_p)
        /\ ret.w = self_w

\* C7 witness: the second construction of an exponent that was rounded to a
\* value other than 0 and 1.
C7_Witness ==
    /\ Built
    /\ call = "power"
    /\ arg.den > max_denom
    /\ ~NumEq(self_p, P0)
    /\ ~IsZeroOrOne(self_p)

\* The monotonicity the documentation gives for an exponent p.
DocumentedMonotonicity(p) ==
    IF NumEq(p, Zero) THEN <<"NONMONOTONIC">>
    ELSE IF NumLt(p, Zero) THEN <<"DECREASING">>
    ELSE IF NumLe(p, One) THEN <<"INCREASING">>
    ELSE IF p.den = 1 /\ \E k \in 1..30 : p.num = 2 ^ k THEN <<"SIGNED">>
    ELSE <<"INCREASING">>

\* C8: monotonicity() is non-monotonic for p = 0, decreasing for p < 0,
\* increasing for 0 < p <= 1, and for p > 1 signed exactly when p is 2, 4, 8,
\* ..., else increasing; an exponent given as 2 reports signed and one given
\* as 3 reports increasing.
C8_Monotonicity ==
    (Built /\ call = "monotonicity") =>
        /\ ret = DocumentedMonotonicity(self_p)
        /\ NumEq(P0, PyInt(2)) => ret = <<"SIGNED">>
        /\ NumEq(P0, PyInt(3)) => ret = <<"INCREASING">>

\* C8 witness: the float 2.0 reporting signed monotonicity.
C8_Witness ==
    /\ Built
    /\ call = "monotonicity"
    /\ arg = [kind |-> "float", num |-> 2, den |-> 1]
    /\ ret = <<"SIGNED">>

\* The lowering the documentation gives for a descriptor (p, w).
DocumentedLowering(p, w) ==
    CASE NumEq(p, One) ->
            [exc |-> "none", obj |-> "x", constrs |-> <<>>, created |-> {}]
      [] NumEq(p, Zero) ->
            [exc |-> "none", obj |-> "one", constrs |-> <<>>,
             created |-> {"one"}]
      [] InUnit(p) ->
            [exc |-> "none", obj |-> "t", created |-> {"one", "t"},
             constrs |-> <<[t |-> "t", x_list |-> <<"x", "one">>, w |-> w]>>]
      [] NumLt(One, p) ->
            [exc |-> "none", obj |-> "t", created |-> {"one", "t"},
             constrs |-> <<[t |-> "x", x_list |-> <<"t", "one">>, w |-> w]>>]
      [] NumLt(p, Zero) ->
            [exc |-> "none", obj |-> "t", created |-> {"one", "t"},
             constrs |-> <<[t |-> "one", x_list |-> <<"x", "t">>, w |-> w]>>]

\* C9: graph_implementation returns x and no constraint for p = 1, the ones
\* constant and no constraint (and no variable) for p = 0, and otherwise a
\* fresh t with gm_constrs(t, [x, one], w) for 0 < p < 1,
\* gm_constrs(x, [t, one], w) for p > 1, gm_constrs(one, [x, t], w) for
\* p < 0, the weights being a pair; it never raises.
C9_Lowering ==
    (Built /\ call = "graph_implementation") =>
        /\ ret = DocumentedLowering(self_p, self_w)
        /\ ret.exc = "none"
        /\ "t" \in ret.created <=> ~IsZeroOrOne(self_p)
        /\ ~IsZeroOrOne(self_p) => ret.constrs[1].w # None

\* C9 witness: the lowering of a negative exponent.
C9_Witness ==
    /\ Built
    /\ call = "graph_implementation"
    /\ NumLt(self_p, Zero)
    /\ ret.obj = "t"
    /\ ret.constrs[1].t = "one"

\* C10: a weight pair (w1, w2) has 0 < w1 < 1, 0 < w2 < 1, w1 + w2 = 1, and
\* w1 = p for 0 < p < 1, w1 * p = 1 for p > 1, w1 = p/(p-1) and
\* w2 = -1/(p-1) for p < 0.
C10_Weights ==
    (Built /\ self_w # None) =>
        LET w1 == self_w[1]
            w2 == self_w[2]
            p == self_p
        IN  /\ InUnit(w1)
            /\ InUnit(w2)
            /\ SumsToOne(self_w)
            /\ InUnit(p) => NumEq(w1, p)
            /\ NumLt(One, p) => w1.num * p.num = w1.den * p.den
            /\ NumLt(p, Zero) =>
                   /\ w1.num * (p.num - p.den) = p.num * w1.den
                   /\ w2.num * (p.num - p.den) = (-p.den) * w2.den

\* C10 witness: the weight pair of a negative exponent that was rounded.
C10_Witness ==
    /\ Built
    /\ self_w # None
    /\ NumLt(self_p, Zero)
    /\ ~NumEq(self_p, P0)

=============================================================================
